---- MODULE Spec2Model ----
(***************************************************************************)
(* Model of the barrier / pub-sub subsystem of the work dispatcher          *)
(* (src/work-dispatcher/consumer/barrier/api.py).                           *)
(*                                                                          *)
(* Threads of control: one pump thread per BarrierContext (DynamicPubSub)   *)
(* and the callers of Barrier.sync.  Every statement of api.py that reads   *)
(* or writes state shared between threads is one action.                    *)
(*                                                                          *)
(* The broker (redis) is modelled by what the calls of api.py do to it:     *)
(*   - INCR is atomic and returns the new value;                            *)
(*   - PUBLISH appends the message to the socket of every subscription      *)
(*     connection that is subscribed to the channel at that moment;         *)
(*   - PubSub.subscribe / PubSub.unsubscribe send the command and update    *)
(*     the client-side handler table (subscribe) or the set of pending      *)
(*     unsubscriptions (unsubscribe); the server answers each with a        *)
(*     confirmation that travels on the same socket, behind the messages    *)
(*     already sent;                                                        *)
(*   - PubSub.get_message reads at most ONE item from the socket and        *)
(*     handles it: a message is passed to the handler the table holds for   *)
(*     its channel, an unsubscribe confirmation removes the handler.        *)
(***************************************************************************)
EXTENDS Integers, Sequences, FiniteSets, TLC

(* ------------------------------ bounds --------------------------------- *)
NumParticipants == 2      \* threads calling Barrier.sync (or the pump's methods)
MaxCalls == 2             \* subscribe / unsubscribe calls the threads make in all
MaxEnvPublishes == 1      \* messages other clients of the broker publish
MaxFailures == 1          \* broker operations that raise a connectivity failure
MaxRetries == 3           \* the retries argument of probe_readiness
MaxBackoff == 2           \* the backoff argument of probe_readiness

(* ----------------------------- constants -------------------------------- *)
None == 0                                  \* Python None, in integer fields
Dummy == "__dummy__"                       \* api.py:17
SyncTag == "tagA"                          \* the tag the sync calls share
OtherTag == "tagB"
Tags == {Dummy, SyncTag, OtherTag}
Noop == 0 - 1                              \* lambda msg: None, api.py:17

Participants == 1..NumParticipants
Ctxs == Participants                       \* at most one BarrierContext each
TestTimeout == 1                           \* timeout=1.0 of test_timeout
Timeouts == {None, TestTimeout}            \* None: no timeout given
\* the count argument: as many as call sync, or one more (a caller is missing)
Counts == NumParticipants..(NumParticipants + 1)
\* fewer than call sync (the tag is over-subscribed)
OverCounts == 1..(NumParticipants - 1)

\* the message a participant passes to sync: distinct per participant
MessageOf(p) == p

VARIABLES
    shared,       \* TRUE: all callers use BarrierContext 1; FALSE: one each
    count,        \* the count argument of every sync call
    timeout,      \* the timeout argument of every sync call (None: absent)
    \* --- broker
    counter,      \* [Tags -> Nat]: the integer INCR keeps per key
    subs,         \* [Ctxs -> SUBSET Tags]: server side subscriptions
    inbox,        \* [Ctxs -> Seq]: socket of the subscription connection
    \* --- redis.client.PubSub object of each context
    channels,     \* [Ctxs -> [Tags -> handler]]: self.channels
    pendingUnsub, \* [Ctxs -> SUBSET Tags]: pending_unsubscribe_channels
    closed,       \* [Ctxs -> BOOLEAN]: pubsub.close() was called
    \* --- DynamicPubSub
    running,      \* [Ctxs -> BOOLEAN]: the _running Event
    queue,        \* [Ctxs -> Seq(command)]: the _queue
    ppc,          \* [Ctxs -> position of the pump thread in run()]
    cur,          \* [Ctxs -> the command or message the pump holds]
    \* --- Release / token of each sync call
    relData,      \* [Participants -> payload]: Release._data
    relEvent,     \* [Participants -> BOOLEAN]: Release._event
    token,        \* [Participants -> BOOLEAN]: token of subscribe()
    \* --- callers of sync
    pc,           \* [Participants -> position in sync()]
    upCount,      \* [Participants -> Nat]: up_count
    elapsed,      \* [Participants -> Nat]: ticks spent in Event.wait
    result,       \* [Participants -> what sync returned or raised]
    \* --- history
    nextId,       \* [Ctxs -> Nat]: commands put on the queue so far
    execLog,      \* [Ctxs -> Seq(command)]: the commands the pump ran, in order
    pubLog,       \* Seq of the PUBLISH calls made: who and what
    trigLog,      \* [Participants -> Seq(payload)]: trigger calls per Release
    polled,       \* [Ctxs -> SUBSET Nat]: queued commands a poll has passed over
    \* --- the threads around one pump: its owner and the callers of its methods
    ctl,          \* owner of the pump: "started", "stopped" (stop() called), "joined"
    calls,        \* subscribe / unsubscribe calls made so far
    envPubs,      \* messages published by other clients of the broker
    \* --- BarrierContext and what runs inside its scope
    poolGiven,    \* TRUE: the pool argument of BarrierContext was supplied
    cmdClosed,    \* [Ctxs -> BOOLEAN]: __exit__ closed the command connection
    failures,     \* broker operations that raised so far
    brokerErr,    \* [Participants -> BOOLEAN]: an operation of p's sync call raised
    job,          \* [Participants -> the job execute_job was called with]
    \* --- kpw.py
    probe         \* the call of probe_readiness: arguments, locals, what it did

vars == <<shared, count, timeout, counter, subs, inbox, channels, pendingUnsub,
          closed, running, queue, ppc, cur, relData, relEvent, token, pc,
          upCount, elapsed, result, nextId, execLog, pubLog, trigLog,
          polled, ctl, calls, envPubs, probe, poolGiven, cmdClosed, failures, brokerErr, job>>

brokerVars == <<counter, subs, inbox>>
pubsubVars == <<channels, pendingUnsub, closed>>
pumpVars == <<running, queue, ppc, cur>>
releaseVars == <<relData, relEvent>>
callerVars == <<pc, upCount, elapsed, result>>
paramVars == <<shared, count, timeout>>
histVars == <<nextId, execLog, pubLog, trigLog, polled>>
scopeVars == <<probe, poolGiven, cmdClosed, failures, brokerErr, job>>
lifeVars == <<ctl, calls, envPubs, scopeVars>>

CtxOf(p) == IF shared THEN 1 ELSE p
UsedCtxs == {CtxOf(p) : p \in Participants}

(* ------------------------- redis client / broker ------------------------ *)
\* PubSub.subscribe(**{tag: handler}) executed on connection c
PubSubSubscribe(c, tag, handler) ==
    /\ subs' = [subs EXCEPT ![c] = @ \cup {tag}]
    /\ channels' = [channels EXCEPT ![c][tag] = handler]
    /\ pendingUnsub' = [pendingUnsub EXCEPT ![c] = @ \ {tag}]
    /\ inbox' = [inbox EXCEPT ![c] = Append(@, [kind |-> "subscribe", channel |-> tag, data |-> None, after |-> {}])]

\* mutant: unsubscribe() without a channel name drops every subscription
PubSubUnsubscribeAll(c, tag) ==
    /\ subs' = [subs EXCEPT ![c] = {}]
    /\ pendingUnsub' = [pendingUnsub EXCEPT ![c] = @ \cup {t \in Tags : channels[c][t] # None}]
    /\ inbox' = [inbox EXCEPT ![c] = Append(@, [kind |-> "unsubscribe", channel |-> tag, data |-> None, after |-> {}])]
    /\ UNCHANGED channels

\* PubSub.unsubscribe(tag) executed on connection c
PubSubUnsubscribe(c, tag) ==
    /\ subs' = [subs EXCEPT ![c] = @ \ {tag}]
    /\ pendingUnsub' = [pendingUnsub EXCEPT ![c] = @ \cup {tag}]
    /\ inbox' = [inbox EXCEPT ![c] = Append(@, [kind |-> "unsubscribe", channel |-> tag, data |-> None, after |-> {}])]
    /\ UNCHANGED channels

\* the sockets after PUBLISH tag message; "after" is history: the Releases
\* that were fulfilled before this PUBLISH
Delivered(tag, message) ==
    [c \in Ctxs |-> IF tag \in subs[c]
                    THEN Append(inbox[c], [kind |-> "message", channel |-> tag, data |-> message,
                                           after |-> {r \in Participants : relEvent[r]}])
                    ELSE inbox[c]]

(* ------------------------------- Init ----------------------------------- *)
InitPubSub ==
    /\ subs = [c \in Ctxs |-> {Dummy}]
    /\ inbox = [c \in Ctxs |-> <<[kind |-> "subscribe", channel |-> Dummy, data |-> None, after |-> {}]>>]
    /\ channels = [c \in Ctxs |-> [t \in Tags |-> IF t = Dummy THEN Noop ELSE None]]
    /\ pendingUnsub = [c \in Ctxs |-> {}]
    /\ closed = [c \in Ctxs |-> FALSE]

\* what the pump holds between two commands or messages
NoCur == [id |-> 0, op |-> "none", tag |-> Dummy, handler |-> None, token |-> None,
          data |-> None, after |-> {}]

InitPump ==
    /\ running = [c \in Ctxs |-> FALSE]
    /\ queue = [c \in Ctxs |-> <<>>]
    /\ ppc = [c \in Ctxs |-> "run"]
    /\ cur = [c \in Ctxs |-> NoCur]

\* probe_readiness is not called
NoProbe == [retries |-> 0, backoff0 |-> 0, i |-> 0, backoff |-> 0, pos |-> "none",
            log |-> <<>>, sleeps |-> <<>>, result |-> "nothing"]

\* broker, pump and Releases right after BarrierContext.__init__
InitState ==
    /\ counter = [t \in Tags |-> 0]
    /\ InitPubSub
    /\ InitPump
    /\ relData = [p \in Participants |-> None]
    /\ relEvent = [p \in Participants |-> FALSE]
    /\ token = [p \in Participants |-> FALSE]
    /\ upCount = [p \in Participants |-> 0]
    /\ elapsed = [p \in Participants |-> 0]
    /\ result = [p \in Participants |-> None]
    /\ nextId = [c \in Ctxs |-> 0]
    /\ execLog = [c \in Ctxs |-> <<>>]
    /\ pubLog = <<>>
    /\ trigLog = [p \in Participants |-> <<>>]
    /\ polled = [c \in Ctxs |-> {}]
    /\ ctl = "started"
    /\ calls = 0
    /\ envPubs = 0
    /\ cmdClosed = [c \in Ctxs |-> FALSE]
    /\ failures = 0
    /\ brokerErr = [p \in Participants |-> FALSE]

\* no job: the thread calls sync itself
NoJob == [barrier |-> FALSE, status |-> "none", release_message |-> None,
          wait_time |-> FALSE, payload |-> FALSE, returned |-> "nothing"]

\* every participant is about to call sync
InitSync ==
    /\ probe = NoProbe
    /\ shared \in BOOLEAN
    /\ poolGiven = FALSE
    /\ job = [p \in Participants |-> NoJob]
    /\ timeout \in Timeouts
    /\ pc = [p \in Participants |-> "sync"]
    /\ InitState

Init == count \in Counts /\ InitSync

\* more callers than count
OverInit == count \in OverCounts /\ InitSync

\* one context; the threads are about to call methods of its pump
PumpInit ==
    /\ probe = NoProbe
    /\ shared = TRUE
    /\ timeout = None
    /\ count = NumParticipants
    /\ pc = [p \in Participants |-> "idle"]
    /\ poolGiven = FALSE
    /\ job = [p \in Participants |-> NoJob]
    /\ InitState

(* --------------------------- DynamicPubSub ------------------------------ *)
\* self._queue.put((method, args, kwargs, token))
Enqueue(c, op, tag, handler, tok) ==
    /\ queue' = [queue EXCEPT ![c] = Append(@, [id |-> nextId[c] + 1, op |-> op, tag |-> tag,
                                                 handler |-> handler, token |-> tok, data |-> None,
                                                 after |-> {}])]
    /\ nextId' = [nextId EXCEPT ![c] = @ + 1]

\* run(), lines 21-22: a pump that finds _running set returns at once
RunCheck(c) ==
    /\ ppc[c] = "run"
    /\ ppc' = [ppc EXCEPT ![c] = IF running[c] THEN "done" ELSE "set"]
    /\ UNCHANGED <<lifeVars, running, queue, cur, brokerVars, pubsubVars, releaseVars, token,
                   callerVars, paramVars, histVars>>

\* run(), line 23
RunSet(c) ==
    /\ ppc[c] = "set"
    /\ running' = [running EXCEPT ![c] = TRUE]
    /\ ppc' = [ppc EXCEPT ![c] = "loop"]
    /\ UNCHANGED <<lifeVars, queue, cur, brokerVars, pubsubVars, releaseVars, token,
                   callerVars, paramVars, histVars>>

\* run(), line 27: while self._running.is_set()
LoopTest(c) ==
    /\ ppc[c] = "loop"
    /\ ppc' = [ppc EXCEPT ![c] = IF running[c] THEN "poll" ELSE "close"]
    /\ UNCHANGED <<lifeVars, running, queue, cur, brokerVars, pubsubVars, releaseVars, token,
                   callerVars, paramVars, histVars>>

\* the handler PubSub.handle_message finds for a message, or None
HandlerFor(c, m) ==
    IF m.kind = "message" THEN channels[c][m.channel] ELSE None

\* run(), line 28: get_message reads one item within the quantum, or none.
\* A message whose channel has a Release.trigger as handler enters trigger.
\* The commands that are queued while the poll is made are noted in polled.
Poll(c) ==
    /\ ppc[c] = "poll"
    /\ IF inbox[c] = <<>>
       THEN /\ ppc' = [ppc EXCEPT ![c] = "drain"]
            /\ UNCHANGED <<lifeVars, inbox, channels, pendingUnsub, cur, trigLog>>
       ELSE LET m == Head(inbox[c])
                h == HandlerFor(c, m)
            IN  /\ inbox' = [inbox EXCEPT ![c] = Tail(@)]
                /\ IF m.kind = "unsubscribe" /\ m.channel \in pendingUnsub[c]
                   THEN /\ pendingUnsub' = [pendingUnsub EXCEPT ![c] = @ \ {m.channel}]
                        /\ channels' = [channels EXCEPT ![c][m.channel] = None]
                   ELSE UNCHANGED <<lifeVars, channels, pendingUnsub>>
                /\ IF h \in Participants
                   THEN /\ cur' = [cur EXCEPT ![c] = [id |-> 0, op |-> "message", tag |-> m.channel,
                                                        handler |-> h, token |-> None, data |-> m.data,
                                                        after |-> m.after]]
                        /\ trigLog' = [trigLog EXCEPT ![h] = Append(@, m.data)]
                        /\ ppc' = [ppc EXCEPT ![c] = "trigger"]
                   ELSE /\ ppc' = [ppc EXCEPT ![c] = "drain"]
                        /\ UNCHANGED <<lifeVars, cur, trigLog>>
    /\ polled' = [polled EXCEPT ![c] = @ \cup {queue[c][i].id : i \in DOMAIN queue[c]}]
    /\ UNCHANGED <<lifeVars, counter, subs, closed, running, queue, releaseVars, token,
                   callerVars, paramVars, nextId, execLog, pubLog>>

\* mutant: unsubscribe waits for a token, as subscribe does, on the pump thread
TriggerUnlistenWaits(c) ==
    /\ ppc[c] = "trigger"
    /\ Enqueue(c, "unsubscribe", cur[c].tag, None, cur[c].handler)
    /\ ppc' = [ppc EXCEPT ![c] = "token_wait"]
    /\ UNCHANGED <<lifeVars, running, cur, brokerVars, pubsubVars, releaseVars, token,
                   callerVars, paramVars, execLog, pubLog, trigLog, polled>>

\* Release.trigger, line 66: self._notifier.unlisten(tag), which is
\* ReleaseNotifier.unlisten (83) -> DynamicPubSub.unsubscribe (51)
TriggerUnlisten(c) ==
    /\ ppc[c] = "trigger"
    /\ Enqueue(c, "unsubscribe", cur[c].tag, None, None)
    /\ ppc' = [ppc EXCEPT ![c] = "trig_data"]
    /\ UNCHANGED <<lifeVars, running, cur, brokerVars, pubsubVars, releaseVars, token,
                   callerVars, paramVars, execLog, pubLog, trigLog, polled>>

\* mutant: trigger marks the Release fulfilled before it stores the payload
TriggerEventFirst(c) ==
    /\ ppc[c] = "trig_data"
    /\ relEvent' = [relEvent EXCEPT ![cur[c].handler] = TRUE]
    /\ ppc' = [ppc EXCEPT ![c] = "trig_set"]
    /\ UNCHANGED <<lifeVars, running, queue, cur, brokerVars, pubsubVars, relData, token,
                   callerVars, paramVars, histVars>>

\* Release.trigger, line 67: self._data = data
TriggerData(c) ==
    /\ ppc[c] = "trig_data"
    /\ relData' = [relData EXCEPT ![cur[c].handler] = cur[c].data]
    /\ ppc' = [ppc EXCEPT ![c] = "trig_set"]
    /\ UNCHANGED <<lifeVars, running, queue, cur, brokerVars, pubsubVars, relEvent, token,
                   callerVars, paramVars, histVars>>

\* Release.trigger, line 68: self._event.set(); get_message then returns
TriggerSet(c) ==
    /\ ppc[c] = "trig_set"
    /\ relEvent' = [relEvent EXCEPT ![cur[c].handler] = TRUE]
    /\ cur' = [cur EXCEPT ![c] = NoCur]
    /\ ppc' = [ppc EXCEPT ![c] = "drain"]
    /\ UNCHANGED <<lifeVars, running, queue, brokerVars, pubsubVars, relData, token,
                   callerVars, paramVars, histVars>>

\* mutant: the drain takes two commands off the queue and runs the second
GetNowaitTwice(c) ==
    /\ ppc[c] = "drain"
    /\ IF queue[c] = <<>>
       THEN /\ ppc' = [ppc EXCEPT ![c] = "loop"]
            /\ UNCHANGED <<queue, cur>>
       ELSE /\ cur' = [cur EXCEPT ![c] = IF Len(queue[c]) > 1 THEN queue[c][2] ELSE queue[c][1]]
            /\ queue' = [queue EXCEPT ![c] = IF Len(@) > 1 THEN Tail(Tail(@)) ELSE Tail(@)]
            /\ ppc' = [ppc EXCEPT ![c] = "exec"]
    /\ polled' = [polled EXCEPT ![c] = @ \cap {queue'[c][i].id : i \in DOMAIN queue'[c]}]
    /\ UNCHANGED <<lifeVars, running, brokerVars, pubsubVars, releaseVars, token,
                   callerVars, paramVars, nextId, execLog, pubLog, trigLog>>

\* run(), lines 30-33: q.get_nowait(); queue.Empty ends the drain
GetNowait(c) ==
    /\ ppc[c] = "drain"
    /\ IF queue[c] = <<>>
       THEN /\ ppc' = [ppc EXCEPT ![c] = "loop"]
            /\ UNCHANGED <<lifeVars, queue, cur>>
       ELSE /\ cur' = [cur EXCEPT ![c] = Head(queue[c])]
            /\ queue' = [queue EXCEPT ![c] = Tail(@)]
            /\ ppc' = [ppc EXCEPT ![c] = "exec"]
    /\ polled' = [polled EXCEPT ![c] = @ \cap {queue'[c][i].id : i \in DOMAIN queue'[c]}]
    /\ UNCHANGED <<lifeVars, running, brokerVars, pubsubVars, releaseVars, token,
                   callerVars, paramVars, nextId, execLog, pubLog, trigLog>>

\* run(), line 35: method(*args, **kwargs)
Exec(c) ==
    /\ ppc[c] = "exec"
    /\ IF cur[c].op = "subscribe"
       THEN PubSubSubscribe(c, cur[c].tag, cur[c].handler)
       ELSE PubSubUnsubscribe(c, cur[c].tag)
    /\ execLog' = [execLog EXCEPT ![c] = Append(@, cur[c])]
    /\ ppc' = [ppc EXCEPT ![c] = "token"]
    /\ UNCHANGED <<lifeVars, counter, closed, running, queue, cur, releaseVars, token,
                   callerVars, paramVars, nextId, pubLog, trigLog, polled>>

\* mutant: the pump forgets the token
TokenForgotten(c) ==
    /\ ppc[c] = "token"
    /\ cur' = [cur EXCEPT ![c] = NoCur]
    /\ ppc' = [ppc EXCEPT ![c] = "drain"]
    /\ UNCHANGED <<lifeVars, running, queue, brokerVars, pubsubVars, releaseVars, token,
                   callerVars, paramVars, histVars>>

\* mutant: the pump polls again after every command
TokenSetThenPoll(c) ==
    /\ ppc[c] = "token"
    /\ token' = IF cur[c].token = None THEN token
                ELSE [token EXCEPT ![cur[c].token] = TRUE]
    /\ cur' = [cur EXCEPT ![c] = NoCur]
    /\ ppc' = [ppc EXCEPT ![c] = "loop"]
    /\ UNCHANGED <<lifeVars, running, queue, brokerVars, pubsubVars, releaseVars,
                   callerVars, paramVars, histVars>>

\* run(), lines 36-37: if token: token.set()
TokenSet(c) ==
    /\ ppc[c] = "token"
    /\ token' = IF cur[c].token = None THEN token
                ELSE [token EXCEPT ![cur[c].token] = TRUE]
    /\ cur' = [cur EXCEPT ![c] = NoCur]
    /\ ppc' = [ppc EXCEPT ![c] = "drain"]
    /\ UNCHANGED <<lifeVars, running, queue, brokerVars, pubsubVars, releaseVars,
                   callerVars, paramVars, histVars>>

(* ------------------- ReleaseNotifier, Release, Barrier ------------------ *)
\* mutant: listen subscribes on the PubSub in the caller's thread
ListenDirect(p) ==
    /\ pc[p] = "sync"
    /\ PubSubSubscribe(CtxOf(p), SyncTag, p)
    /\ token' = [token EXCEPT ![p] = TRUE]
    /\ pc' = [pc EXCEPT ![p] = "incr"]
    /\ UNCHANGED <<lifeVars, pumpVars, counter, closed, releaseVars,
                   upCount, elapsed, result, paramVars, histVars>>

\* sync(), line 105: listen(tag) makes a Release (87) and calls
\* DynamicPubSub.subscribe(**{tag: release.trigger}), which makes a token and
\* queues the command (45-46)
Listen(p) ==
    /\ pc[p] = "sync"
    /\ Enqueue(CtxOf(p), "subscribe", SyncTag, p, p)
    /\ pc' = [pc EXCEPT ![p] = "token_wait"]
    /\ UNCHANGED <<lifeVars, running, ppc, cur, brokerVars, pubsubVars, releaseVars, token,
                   upCount, elapsed, result, paramVars, execLog, pubLog, trigLog, polled>>

\* mutant: subscribe returns without waiting for its token
SubscribeNoWait(p) ==
    /\ pc[p] = "token_wait"
    /\ pc' = [pc EXCEPT ![p] = "incr"]
    /\ UNCHANGED <<lifeVars, pumpVars, brokerVars, pubsubVars, releaseVars, token,
                   upCount, elapsed, result, paramVars, histVars>>

\* DynamicPubSub.subscribe, line 47: token.wait() returns once the token is set
SubscribeWait(p) ==
    /\ pc[p] = "token_wait"
    /\ token[p]
    /\ pc' = [pc EXCEPT ![p] = "incr"]
    /\ UNCHANGED <<lifeVars, pumpVars, brokerVars, pubsubVars, releaseVars, token,
                   upCount, elapsed, result, paramVars, histVars>>

\* mutants: the threshold test is off by one; the test is dropped
ShouldPublishOffByOne(n, cnt) == n + 1 >= cnt
ShouldPublishAlways(n, cnt) == TRUE

\* sync(), line 108: if up_count >= count
ShouldPublish(n, cnt) == n >= cnt

\* sync(), line 107: up_count = self._client.incr(tag)
Incr(p) ==
    /\ pc[p] = "incr"
    /\ counter' = [counter EXCEPT ![SyncTag] = @ + 1]
    /\ upCount' = [upCount EXCEPT ![p] = counter[SyncTag] + 1]
    /\ pc' = [pc EXCEPT ![p] = IF ShouldPublish(counter[SyncTag] + 1, count)
                               THEN "publish" ELSE "wait"]
    /\ UNCHANGED <<lifeVars, pumpVars, subs, inbox, pubsubVars, releaseVars, token,
                   elapsed, result, paramVars, histVars>>

\* sync(), line 109: self._client.publish(tag, message)
Publish(p) ==
    /\ pc[p] = "publish"
    /\ inbox' = Delivered(SyncTag, MessageOf(p))
    /\ pubLog' = Append(pubLog, [by |-> p, data |-> MessageOf(p)])
    /\ pc' = [pc EXCEPT ![p] = "wait"]
    /\ UNCHANGED <<lifeVars, pumpVars, counter, subs, pubsubVars, releaseVars, token,
                   upCount, elapsed, result, paramVars, nextId, execLog, trigLog, polled>>

\* Release.wait, line 71: time passes while the caller is blocked in
\* self._event.wait(timeout)
WaitTick(p) ==
    /\ pc[p] = "wait"
    /\ timeout # None
    /\ elapsed[p] < timeout
    /\ elapsed' = [elapsed EXCEPT ![p] = @ + 1]
    /\ UNCHANGED <<lifeVars, pumpVars, brokerVars, pubsubVars, releaseVars, token,
                   pc, upCount, result, paramVars, histVars>>

\* mutant: a wait with a timeout gives up without waiting
ExpiredAtOnce(p) == timeout # None

\* Event.wait(timeout) gives up: no timeout never, a timeout at its deadline
Expired(p) == timeout # None /\ elapsed[p] >= timeout

\* Release.wait, lines 71-72: the event is set, done is True
WaitFulfilled(p) ==
    /\ pc[p] = "wait"
    /\ relEvent[p]
    /\ pc' = [pc EXCEPT ![p] = "return"]
    /\ UNCHANGED <<lifeVars, pumpVars, brokerVars, pubsubVars, releaseVars, token,
                   upCount, elapsed, result, paramVars, histVars>>

\* mutant: a wait that times out tells the notifier to unlisten
WaitTimeoutUnlistens(p) ==
    /\ pc[p] = "wait"
    /\ ~relEvent[p]
    /\ Expired(p)
    /\ Enqueue(CtxOf(p), "unsubscribe", SyncTag, None, None)
    /\ pc' = [pc EXCEPT ![p] = "raised"]
    /\ UNCHANGED <<lifeVars, running, ppc, cur, brokerVars, pubsubVars, releaseVars, token,
                   upCount, elapsed, result, paramVars, execLog, pubLog, trigLog, polled>>

\* Release.wait, lines 71, 74-75: the deadline passed with the event unset
WaitTimeout(p) ==
    /\ pc[p] = "wait"
    /\ ~relEvent[p]
    /\ Expired(p)
    /\ pc' = [pc EXCEPT ![p] = "raised"]
    /\ UNCHANGED <<lifeVars, pumpVars, brokerVars, pubsubVars, releaseVars, token,
                   upCount, elapsed, result, paramVars, histVars>>

\* mutant: sync returns the caller's own message
ReturnOwnMessage(p) ==
    /\ pc[p] = "return"
    /\ result' = [result EXCEPT ![p] = MessageOf(p)]
    /\ pc' = [pc EXCEPT ![p] = "done"]
    /\ UNCHANGED <<lifeVars, pumpVars, brokerVars, pubsubVars, releaseVars, token,
                   upCount, elapsed, paramVars, histVars>>

\* Release.wait, line 73: return self._data
ReturnData(p) ==
    /\ pc[p] = "return"
    /\ result' = [result EXCEPT ![p] = relData[p]]
    /\ pc' = [pc EXCEPT ![p] = "done"]
    /\ UNCHANGED <<lifeVars, pumpVars, brokerVars, pubsubVars, releaseVars, token,
                   upCount, elapsed, paramVars, histVars>>

(* ------------------- the pump's owner and its callers ------------------- *)
\* DynamicPubSub.stop, line 41 (BarrierContext.__exit__, line 151)
Stop ==
    /\ ctl = "started"
    /\ running' = [running EXCEPT ![1] = FALSE]
    /\ ctl' = "stopped"
    /\ UNCHANGED <<calls, envPubs, scopeVars, queue, ppc, cur, brokerVars, pubsubVars, releaseVars,
                   token, callerVars, paramVars, histVars>>

\* the pump thread has ended: run() returned, or raised
Exited(c) == ppc[c] \in {"done", "died"}

\* mutant: join returns while the pump thread is alive
JoinNoWait ==
    /\ ctl = "stopped"
    /\ ctl' = "joined"
    /\ UNCHANGED <<calls, envPubs, scopeVars, pumpVars, brokerVars, pubsubVars, releaseVars,
                   token, callerVars, paramVars, histVars>>

\* Thread.join (BarrierContext.__exit__, line 152) returns once the thread ended
Join ==
    /\ ctl = "stopped"
    /\ Exited(1)
    /\ ctl' = "joined"
    /\ UNCHANGED <<calls, envPubs, scopeVars, pumpVars, brokerVars, pubsubVars, releaseVars,
                   token, callerVars, paramVars, histVars>>

\* run(), line 38: pubsub.close() drops the handlers and the connection
Close(c) ==
    /\ ppc[c] = "close"
    /\ closed' = [closed EXCEPT ![c] = TRUE]
    /\ channels' = [channels EXCEPT ![c] = [t \in Tags |-> None]]
    /\ pendingUnsub' = [pendingUnsub EXCEPT ![c] = {}]
    /\ subs' = [subs EXCEPT ![c] = {}]
    /\ inbox' = [inbox EXCEPT ![c] = <<>>]
    /\ ppc' = [ppc EXCEPT ![c] = "done"]
    /\ UNCHANGED <<lifeVars, counter, running, queue, cur, releaseVars, token,
                   callerVars, paramVars, histVars>>

\* DynamicPubSub.subscribe, lines 45-46, called by thread p with its
\* Release's trigger as the handler of tag
ApiSubscribe(p, tag) ==
    /\ pc[p] = "idle"
    /\ calls < MaxCalls
    /\ calls' = calls + 1
    /\ token' = [token EXCEPT ![p] = FALSE]
    /\ Enqueue(1, "subscribe", tag, p, p)
    /\ pc' = [pc EXCEPT ![p] = "api_wait"]
    /\ UNCHANGED <<ctl, envPubs, scopeVars, running, ppc, cur, brokerVars, pubsubVars, releaseVars,
                   upCount, elapsed, result, paramVars, execLog, pubLog, trigLog, polled>>

\* DynamicPubSub.subscribe, line 47
ApiSubscribeReturn(p) ==
    /\ pc[p] = "api_wait"
    /\ token[p]
    /\ pc' = [pc EXCEPT ![p] = "idle"]
    /\ UNCHANGED <<lifeVars, pumpVars, brokerVars, pubsubVars, releaseVars, token,
                   upCount, elapsed, result, paramVars, histVars>>

\* ReleaseNotifier.unlisten (82-84) -> DynamicPubSub.unsubscribe (51)
ApiUnsubscribe(p, tag) ==
    /\ pc[p] = "idle"
    /\ calls < MaxCalls
    /\ calls' = calls + 1
    /\ Enqueue(1, "unsubscribe", tag, None, None)
    /\ UNCHANGED <<ctl, envPubs, scopeVars, running, ppc, cur, brokerVars, pubsubVars, releaseVars,
                   token, callerVars, paramVars, execLog, pubLog, trigLog, polled>>

\* what another client of the broker publishes
EnvMessage == NumParticipants + 1

\* another client of the broker publishes on tag
EnvPublish(tag) ==
    /\ envPubs < MaxEnvPublishes
    /\ envPubs' = envPubs + 1
    /\ inbox' = Delivered(tag, EnvMessage)
    /\ pubLog' = Append(pubLog, [by |-> None, data |-> EnvMessage])
    /\ UNCHANGED <<ctl, calls, scopeVars, pumpVars, counter, subs, pubsubVars, releaseVars, token,
                   callerVars, paramVars, nextId, execLog, trigLog, polled>>

(* ----------------------- BarrierContext scope --------------------------- *)
\* the pool the two clients draw their connections from, lines 134-135:
\* connection_pool=pool, and a client given None makes a pool of its own
ClientPool == IF poolGiven THEN "caller" ELSE "private"

\* self._pool, lines 127-132
ContextPool == IF poolGiven THEN "caller" ELSE "default"

\* the command connection of context c has an open socket: a command was
\* sent on it and nothing closed it
CmdOpen(c) ==
    /\ \E p \in Participants : CtxOf(p) = c /\ upCount[p] > 0
    /\ ~cmdClosed[c]

\* the subscription connection is open from line 16 until something closes it
SubOpen(c) == ~closed[c]

\* sync is called inside the scope
ScopeListen(p) == ctl = "started" /\ Listen(p)

\* the scope ends, by return or by an error, when no sync call is under way;
\* __exit__ starts with stop() (line 151)
ScopeExit ==
    /\ \A p \in Participants : pc[p] \in {"sync", "done", "raised", "error"}
    /\ Stop

\* __exit__, lines 154-158: the context's pool is disconnected if the context
\* made it, else the two connections are closed
ExitRelease ==
    /\ ctl = "joined"
    /\ ctl' = "released"
    /\ IF ~poolGiven
       THEN \* self._pool.disconnect() closes the connections drawn from self._pool
            IF ClientPool = ContextPool
            THEN /\ closed' = [closed EXCEPT ![1] = TRUE]
                 /\ cmdClosed' = [cmdClosed EXCEPT ![1] = TRUE]
            ELSE UNCHANGED <<closed, cmdClosed>>
       ELSE /\ closed' = [closed EXCEPT ![1] = TRUE]
            /\ cmdClosed' = [cmdClosed EXCEPT ![1] = TRUE]
    /\ UNCHANGED <<calls, envPubs, probe, poolGiven, failures, brokerErr, job, pumpVars, brokerVars,
                   channels, pendingUnsub, releaseVars, token, callerVars, paramVars, histVars>>

\* sync(), line 107: the client raises a connectivity failure, sync raises it
IncrFails(p) ==
    /\ pc[p] = "incr"
    /\ failures < MaxFailures
    /\ failures' = failures + 1
    /\ brokerErr' = [brokerErr EXCEPT ![p] = TRUE]
    /\ pc' = [pc EXCEPT ![p] = "error"]
    /\ UNCHANGED <<ctl, calls, envPubs, probe, poolGiven, cmdClosed, job, pumpVars, brokerVars,
                   pubsubVars, releaseVars, token, upCount, elapsed, result, paramVars,
                   histVars>>

\* sync(), line 109: the client raises a connectivity failure, sync raises it
PublishFails(p) ==
    /\ pc[p] = "publish"
    /\ failures < MaxFailures
    /\ failures' = failures + 1
    /\ brokerErr' = [brokerErr EXCEPT ![p] = TRUE]
    /\ pc' = [pc EXCEPT ![p] = "error"]
    /\ UNCHANGED <<ctl, calls, envPubs, probe, poolGiven, cmdClosed, job, pumpVars, brokerVars,
                   pubsubVars, releaseVars, token, upCount, elapsed, result, paramVars,
                   histVars>>

\* run(), line 35: method(*args, **kwargs) raises a connectivity failure in
\* the pump thread; nothing in run() catches it, the thread ends with it
\* (neither line 37 nor line 38 is reached)
ExecFails(c) ==
    /\ ppc[c] = "exec"
    /\ failures < MaxFailures
    /\ failures' = failures + 1
    /\ brokerErr' = IF cur[c].token = None THEN brokerErr
                    ELSE [brokerErr EXCEPT ![cur[c].token] = TRUE]
    /\ ppc' = [ppc EXCEPT ![c] = "died"]
    /\ UNCHANGED <<ctl, calls, envPubs, probe, poolGiven, cmdClosed, job, running, queue, cur,
                   brokerVars, pubsubVars, releaseVars, token, callerVars, paramVars,
                   histVars>>

(* ------------------ BarrierSyncWorker.execute_job (kpw.py) -------------- *)
\* a job whose kwargs hold a __barrier__ descriptor
BarrierJob == [barrier |-> TRUE, status |-> "queued", release_message |-> None,
               wait_time |-> FALSE, payload |-> FALSE, returned |-> "nothing"]

\* a job without one
PlainJob == [BarrierJob EXCEPT !.barrier = FALSE]

\* execute_job, lines 105-108: the descriptor is there, sync is called
JobSync(p) ==
    /\ pc[p] = "job"
    /\ job[p].barrier
    /\ job' = [job EXCEPT ![p].status = "started"]
    /\ pc' = [pc EXCEPT ![p] = "sync"]
    /\ UNCHANGED <<ctl, calls, envPubs, probe, poolGiven, cmdClosed, failures, brokerErr, pumpVars,
                   brokerVars, pubsubVars, releaseVars, token, upCount, elapsed, result,
                   paramVars, histVars>>

\* execute_job, lines 109-116: sync returned; its value and the time it took
\* are stored in the descriptor
JobRecord(p) ==
    /\ pc[p] = "done"
    /\ job[p].status = "started"
    /\ job' = [job EXCEPT ![p].release_message = result[p], ![p].wait_time = TRUE]
    /\ pc' = [pc EXCEPT ![p] = "payload"]
    /\ UNCHANGED <<ctl, calls, envPubs, probe, poolGiven, cmdClosed, failures, brokerErr, pumpVars,
                   brokerVars, pubsubVars, releaseVars, token, upCount, elapsed, result,
                   paramVars, histVars>>

\* mutant: the handler of TimeoutError falls through to the payload
JobTimeoutFallsThrough(p) ==
    /\ pc[p] = "raised"
    /\ job[p].status = "started"
    /\ job' = [job EXCEPT ![p].status = "failed"]
    /\ pc' = [pc EXCEPT ![p] = "payload"]
    /\ UNCHANGED <<ctl, calls, envPubs, probe, poolGiven, cmdClosed, failures, brokerErr, pumpVars,
                   brokerVars, pubsubVars, releaseVars, token, upCount, elapsed, result,
                   paramVars, histVars>>

\* execute_job, lines 117-126: sync raised TimeoutError; handle_job_failure
\* marks the job failed and execute_job returns False
JobTimeout(p) ==
    /\ pc[p] = "raised"
    /\ job[p].status = "started"
    /\ job' = [job EXCEPT ![p].status = "failed", ![p].returned = "False"]
    /\ pc' = [pc EXCEPT ![p] = "job_done"]
    /\ UNCHANGED <<ctl, calls, envPubs, probe, poolGiven, cmdClosed, failures, brokerErr, pumpVars,
                   brokerVars, pubsubVars, releaseVars, token, upCount, elapsed, result,
                   paramVars, histVars>>

\* execute_job, line 128: super().execute_job(job, queue) runs the payload;
\* a job without a descriptor comes here at once (line 105)
JobPayload(p) ==
    /\ \/ pc[p] = "payload"
       \/ pc[p] = "job" /\ ~job[p].barrier
    /\ job' = [job EXCEPT ![p].payload = TRUE, ![p].returned = "super",
                          ![p].status = IF @ = "failed" THEN @ ELSE "finished"]
    /\ pc' = [pc EXCEPT ![p] = "job_done"]
    /\ UNCHANGED <<ctl, calls, envPubs, probe, poolGiven, cmdClosed, failures, brokerErr, pumpVars,
                   brokerVars, pubsubVars, releaseVars, token, upCount, elapsed, result,
                   paramVars, histVars>>

(* ------------------------ probe_readiness (kpw.py) ---------------------- *)
\* what requests.get(ready_url) does: status 200, another status, or
\* requests.exceptions.ConnectionError
Outcomes == {"200", "other status", "ConnectionError"}

\* lines 76-86: for i in range(1, retries + 1): one GET; status 200 returns True
ProbeGet ==
    /\ probe.pos = "loop"
    /\ probe.i <= probe.retries
    /\ \E o \in Outcomes :
          probe' = [probe EXCEPT !.log = Append(@, o),
                                 !.pos = IF o = "200" THEN "done" ELSE "failed",
                                 !.result = IF o = "200" THEN "True" ELSE @]
    /\ UNCHANGED <<ctl, calls, envPubs, poolGiven, cmdClosed, failures, brokerErr, job,
                   pumpVars, brokerVars, pubsubVars, releaseVars, token, callerVars,
                   paramVars, histVars>>

\* mutant: the backoff is not doubled
ProbeSleepConstant ==
    /\ probe.pos = "failed"
    /\ probe' = IF probe.i < probe.retries
                THEN [probe EXCEPT !.sleeps = Append(@, probe.backoff),
                                   !.i = @ + 1, !.pos = "loop"]
                ELSE [probe EXCEPT !.i = @ + 1, !.pos = "loop"]
    /\ UNCHANGED <<ctl, calls, envPubs, poolGiven, cmdClosed, failures, brokerErr, job,
                   pumpVars, brokerVars, pubsubVars, releaseVars, token, callerVars,
                   paramVars, histVars>>

\* lines 87-94: after a failure, if i < retries: time.sleep(backoff);
\* backoff += backoff; then the next i
ProbeSleep ==
    /\ probe.pos = "failed"
    /\ probe' = IF probe.i < probe.retries
                THEN [probe EXCEPT !.sleeps = Append(@, probe.backoff),
                                   !.backoff = @ + @,
                                   !.i = @ + 1, !.pos = "loop"]
                ELSE [probe EXCEPT !.i = @ + 1, !.pos = "loop"]
    /\ UNCHANGED <<ctl, calls, envPubs, poolGiven, cmdClosed, failures, brokerErr, job,
                   pumpVars, brokerVars, pubsubVars, releaseVars, token, callerVars,
                   paramVars, histVars>>

\* line 96: the range is used up, return False
ProbeReturnFalse ==
    /\ probe.pos = "loop"
    /\ probe.i > probe.retries
    /\ probe' = [probe EXCEPT !.pos = "done", !.result = "False"]
    /\ UNCHANGED <<ctl, calls, envPubs, poolGiven, cmdClosed, failures, brokerErr, job,
                   pumpVars, brokerVars, pubsubVars, releaseVars, token, callerVars,
                   paramVars, histVars>>

(* --------------------------- specification ------------------------------ *)
\* one step of the pump thread of context c while nobody stops it
Pump(c) ==
    \/ RunCheck(c)
    \/ RunSet(c)
    \/ LoopTest(c)
    \/ Poll(c)
    \/ TriggerUnlisten(c)
    \/ TriggerData(c)
    \/ TriggerSet(c)
    \/ GetNowait(c)
    \/ Exec(c)
    \/ TokenSet(c)

\* one step of the thread that calls sync
Sync(p) ==
    \/ Listen(p)
    \/ SubscribeWait(p)
    \/ Incr(p)
    \/ Publish(p)
    \/ WaitTick(p)
    \/ WaitFulfilled(p)
    \/ WaitTimeout(p)
    \/ ReturnData(p)

\* only the contexts that were constructed have a pump thread
PumpStep(c) == c \in UsedCtxs /\ Pump(c)

Next ==
    \/ \E c \in Ctxs : PumpStep(c)
    \/ \E p \in Participants : Sync(p)

Spec == Init /\ [][Next]_vars

\* the whole of run(), its exit included
PumpLife(c) == Pump(c) \/ Close(c)

ApiTags == {SyncTag, OtherTag}

\* one pump, its owner, the threads that call its methods, the broker
PumpNext ==
    \/ PumpLife(1)
    \/ Stop
    \/ Join
    \/ \E p \in Participants, t \in ApiTags : ApiSubscribe(p, t)
    \/ \E p \in Participants : ApiSubscribeReturn(p)
    \/ \E p \in Participants, t \in ApiTags : ApiUnsubscribe(p, t)
    \/ \E t \in ApiTags : EnvPublish(t)

SpecPump == PumpInit /\ [][PumpNext]_vars

\* the pump thread and the threads returning from subscribe are scheduled
FairSpecPump ==
    /\ SpecPump
    /\ WF_vars(PumpLife(1))
    /\ \A p \in Participants : WF_vars(ApiSubscribeReturn(p))

\* the same threads on an over-subscribed tag
SpecOver == OverInit /\ [][Next]_vars

\* every thread that can take a step eventually takes one, and time passes
FairSpec ==
    /\ Spec
    /\ \A c \in Ctxs : WF_vars(PumpStep(c))
    /\ \A p \in Participants : WF_vars(Sync(p))

\* one BarrierContext, made with or without a pool, the sync calls made
\* through it by every thread, and its __exit__
ScopeInit ==
    /\ probe = NoProbe
    /\ shared = TRUE
    /\ count \in Counts
    /\ timeout \in Timeouts
    /\ poolGiven \in BOOLEAN
    /\ pc = [p \in Participants |-> "sync"]
    /\ job = [p \in Participants |-> NoJob]
    /\ InitState

\* one step of a thread that calls sync inside the scope; the broker may fail
ScopeSync(p) ==
    \/ ScopeListen(p)
    \/ SubscribeWait(p)
    \/ Incr(p)
    \/ IncrFails(p)
    \/ Publish(p)
    \/ PublishFails(p)
    \/ WaitTick(p)
    \/ WaitFulfilled(p)
    \/ WaitTimeout(p)
    \/ ReturnData(p)

ScopeNext ==
    \/ PumpLife(1)
    \/ ExecFails(1)
    \/ \E p \in Participants : ScopeSync(p)
    \/ ScopeExit
    \/ Join
    \/ ExitRelease

SpecScope == ScopeInit /\ [][ScopeNext]_vars

\* the pump thread and the callers are scheduled, and so is the thread in __exit__
FairSpecScope ==
    /\ SpecScope
    /\ WF_vars(PumpLife(1))
    /\ \A p \in Participants : WF_vars(ScopeSync(p))
    /\ WF_vars(Join \/ ExitRelease)

\* kpw.py main: every worker process has its BarrierContext, made with a
\* pool (line 151), and its worker thread takes one job
JobInit ==
    /\ probe = NoProbe
    /\ shared = FALSE
    /\ count \in Counts
    /\ timeout \in Timeouts
    /\ poolGiven = TRUE
    /\ pc = [p \in Participants |-> "job"]
    /\ job \in [Participants -> {BarrierJob, PlainJob}]
    /\ InitState

\* one step of a worker thread in execute_job
ExecuteJob(p) ==
    \/ JobSync(p)
    \/ Sync(p)
    \/ JobRecord(p)
    \/ JobTimeout(p)
    \/ JobPayload(p)

JobNext ==
    \/ \E c \in Ctxs : PumpStep(c)
    \/ \E p \in Participants : ExecuteJob(p)

SpecJob == JobInit /\ [][JobNext]_vars

\* probe_readiness(ready_url, retries, backoff) is called; nothing else runs
ProbeInit ==
    /\ shared = TRUE
    /\ count = NumParticipants
    /\ timeout = None
    /\ poolGiven = TRUE
    /\ pc = [p \in Participants |-> "idle"]
    /\ job = [p \in Participants |-> NoJob]
    /\ InitState
    /\ \E r \in 0..MaxRetries, b \in 1..MaxBackoff :
          probe = [NoProbe EXCEPT !.retries = r, !.backoff0 = b, !.backoff = b,
                                  !.i = 1, !.pos = "loop"]

ProbeNext == ProbeGet \/ ProbeSleep \/ ProbeReturnFalse

SpecProbe == ProbeInit /\ [][ProbeNext]_vars

(* ------------------------------ claims --------------------------------- *)
Returned(p) == pc[p] \in {"return", "done"}
OwnExact == ~shared /\ count = NumParticipants

\* the subscribe command of p's sync call was run by the pump
SubscribeExecuted(p) ==
    \E i \in DOMAIN execLog[CtxOf(p)] :
        /\ execLog[CtxOf(p)][i].op = "subscribe"
        /\ execLog[CtxOf(p)][i].handler = p

\* C1: no sync call returns a message before count calls have incremented
\* the counter of the tag
C1_BarrierSafety ==
    \A p \in Participants : Returned(p) => counter[SyncTag] >= count

C1_Witness ==
    /\ count = NumParticipants
    /\ \A p \in Participants : pc[p] = "done"

\* C2: k callers, each in its own context, count = k: whoever returns, returns
\* the message of the caller whose increment returned k
C2_Agreement ==
    OwnExact =>
        \A p \in Participants :
            pc[p] = "done" =>
                \E q \in Participants : upCount[q] = count /\ result[p] = MessageOf(q)

C2_Witness ==
    /\ OwnExact
    /\ \A p \in Participants : pc[p] = "done" /\ result[p] = MessageOf(1)
    /\ upCount[1] = count

\* C3: count callers on a fresh tag, each with its own context and pump and
\* no timeout: under fair scheduling every call returns
C3_RendezvousLiveness ==
    (OwnExact /\ timeout = None) => <>(\A p \in Participants : pc[p] = "done")

C3_Witness ==
    /\ OwnExact
    /\ timeout = None
    /\ \A p \in Participants : pc[p] = "done" /\ result[p] # None

\* C4: fewer than count callers: nobody returns a message; a caller with a
\* finite timeout raises TimeoutError, not before its deadline and not never
C4_TimeoutUnderSubscription ==
    (count > NumParticipants) =>
        /\ [](\A p \in Participants :
                /\ ~Returned(p)
                /\ pc[p] = "raised" => (timeout # None /\ elapsed[p] >= timeout))
        /\ (timeout # None => <>(\A p \in Participants : pc[p] = "raised"))

C4_Witness ==
    /\ count > NumParticipants
    /\ \A p \in Participants : pc[p] = "raised" /\ elapsed[p] = timeout

\* C5: a caller that is about to increment, or has, had its subscribe command
\* run by the pump and its token set; until a release is published the
\* subscription is active
C5_ListenBeforeIncrement ==
    \A p \in Participants :
        pc[p] \notin {"sync", "token_wait"} =>
            /\ token[p]
            /\ SubscribeExecuted(p)
            /\ (pubLog = <<>> /\ pc[p] = "incr") => SyncTag \in subs[CtxOf(p)]

C5_Witness ==
    \E p \in Participants : pc[p] = "incr" /\ SubscribeExecuted(p)

\* C6: with exactly count callers, one publish, made by the caller whose
\* increment returned count, with its own message; nobody below count publishes
C6_SinglePublish ==
    /\ \A i \in DOMAIN pubLog :
          /\ upCount[pubLog[i].by] >= count
          /\ pubLog[i].data = MessageOf(pubLog[i].by)
    /\ \A p \in Participants : (pc[p] = "publish") => upCount[p] >= count
    /\ count = NumParticipants =>
          /\ Len(pubLog) <= 1
          /\ (\A p \in Participants : pc[p] \in {"wait", "return", "done", "raised"})
                => Len(pubLog) = 1

C6_Witness ==
    /\ count = NumParticipants
    /\ Len(pubLog) = 1
    /\ \A p \in Participants : pc[p] = "done"

\* C7 as stated: a message published after a Release was fulfilled never
\* reaches the trigger of that Release
C7_NoLateDelivery ==
    ~shared =>
        \A c \in Ctxs : ppc[c] = "trigger" => cur[c].handler \notin cur[c].after

\* C15 as stated: a Release is fulfilled at most once, and one whose wait
\* timed out is never fulfilled afterwards
C15_ReleaseOneShot ==
    \A p \in Participants :
        /\ Len(trigLog[p]) <= 1
        /\ pc[p] = "raised" => ~relEvent[p]

\* C16 as stated: through a shared context, the Release of every call that
\* has listened stays registered for the tag until a message is published
C16_SharedListenKeepsReleases ==
    shared =>
        \A p \in Participants :
            (pc[p] \in {"incr", "publish", "wait"} /\ pubLog = <<>>)
                => channels[CtxOf(p)][SyncTag] = p

\* the calls whose increment returned at most count, at least count
FirstCallers == {p \in Participants : upCount[p] \in 1..count}
Redundant == {q \in Participants : upCount[q] > count}

\* C17 as stated: with more than count callers, each with its own context, a
\* message published by a call whose increment exceeded count never reaches
\* the trigger of a Release of the first count callers, and each of these
\* returns the message of the call whose increment returned count
C17_RedundantPublishBenign ==
    ~shared =>
        /\ \A c \in Ctxs :
              (ppc[c] = "trigger" /\ cur[c].handler \in FirstCallers)
                  => \A q \in Redundant : cur[c].data # MessageOf(q)
        /\ \A p \in FirstCallers :
              pc[p] = "done" => \E q \in Participants : upCount[q] = count /\ result[p] = MessageOf(q)

\* the unsubscribe commands put on the queue of context c so far
UnsubCmds(c) == nextId[c] - Cardinality({p \in Participants : CtxOf(p) = c /\ pc[p] # "sync"})

\* the calls of trigger the pump of context c made so far
RECURSIVE TriggerCalls(_, _)
TriggerCalls(c, S) ==
    IF S = {} THEN 0
    ELSE LET p == CHOOSE x \in S : TRUE
         IN  (IF CtxOf(p) = c THEN Len(trigLog[p]) ELSE 0) + TriggerCalls(c, S \ {p})

\* a message on the tag waits on the socket of context c
MessageWaiting(c) ==
    \E i \in DOMAIN inbox[c] : inbox[c][i].kind = "message" /\ inbox[c][i].channel = SyncTag

\* C18: a wait that times out changes no subscription and queues nothing; as
\* long as nothing is published the tag of a timed-out call stays subscribed
\* with a Release registered and no unsubscribe queued; a message published
\* later makes the pump call trigger on the abandoned Release that is
\* registered, and unsubscribe commands are only queued by trigger calls
C18_TimeoutKeepsSubscription ==
    /\ [][\A p \in Participants :
            (pc[p] = "wait" /\ pc'[p] = "raised") =>
                (subs' = subs /\ channels' = channels /\ pendingUnsub' = pendingUnsub
                 /\ queue' = queue)]_vars
    /\ [](\A p \in Participants :
            (pc[p] = "raised" /\ pubLog = <<>>) =>
                /\ SyncTag \in subs[CtxOf(p)]
                /\ channels[CtxOf(p)][SyncTag] \in {q \in Participants : CtxOf(q) = CtxOf(p)}
                /\ UnsubCmds(CtxOf(p)) = 0)
    /\ [](\A c \in Ctxs : UnsubCmds(c) <= TriggerCalls(c, Participants))
    /\ \A p \in Participants :
            (pc[p] = "raised" /\ channels[CtxOf(p)][SyncTag] = p /\ MessageWaiting(CtxOf(p)))
                ~> (trigLog[p] # <<>>)

C18_Witness ==
    \E p \in Participants :
        /\ pc[p] = "raised"
        /\ ~shared
        /\ Len(trigLog[p]) = 1
        /\ relEvent[p]
        /\ \E i \in DOMAIN execLog[CtxOf(p)] : execLog[CtxOf(p)][i].op = "unsubscribe"

\* the payloads of the messages published on the tag so far
PublishedData == {pubLog[i].data : i \in DOMAIN pubLog}

\* C21: a Release that is marked fulfilled holds the payload of a message
\* published on the tag, and a wait that returns, returns such a payload,
\* never the initial None
C21_PayloadBeforeFulfilment ==
    \A p \in Participants :
        /\ relEvent[p] => relData[p] \in PublishedData
        /\ pc[p] = "return" => relData[p] \in PublishedData
        /\ pc[p] = "done" => (result[p] # None /\ result[p] \in PublishedData)

\* a wait returned on the caller's thread while the pump was still in trigger
\* for another Release, or had just left it
C21_Witness ==
    \E p \in Participants :
        /\ pc[p] = "done"
        /\ result[p] \in PublishedData
        /\ \E q \in Participants \ {p} : pc[q] = "wait" /\ relData[q] # None /\ ~relEvent[q]

(* ---------------- claims about one pump and its callers ----------------- *)
CmdIds == 1..(MaxCalls + MaxEnvPublishes)
ExecutedIds(c) == {execLog[c][i].id : i \in DOMAIN execLog[c]}

\* the pump ran the commands in the order of the queue, none twice
RanInOrder(c) ==
    \A i, j \in DOMAIN execLog[c] : i < j => execLog[c][i].id < execLog[c][j].id

\* the token a thread waits for is only set by the run of a subscribe command
TokenFromRun(p) ==
    token[p] => \E i \in DOMAIN execLog[1] :
                    execLog[1][i].op = "subscribe" /\ execLog[1][i].token = p

\* C8 as stated: whenever the calls are made, every command is run exactly
\* once and every subscribe call gets its token
C8_QueueIntegrity ==
    /\ [](RanInOrder(1))
    /\ \A id \in CmdIds : (nextId[1] >= id) ~> (id \in ExecutedIds(1))
    /\ \A p \in Participants : (pc[p] = "api_wait") ~> token[p]

\* C8 amended: no command is run twice or out of order and a token is set
\* only by the run of its command; as long as stop() has not been called
\* every command is eventually run and every subscribe call gets its token
C8_QueueIntegrityUntilStop ==
    /\ [](RanInOrder(1) /\ \A p \in Participants : TokenFromRun(p))
    /\ \A id \in CmdIds : (nextId[1] >= id) ~> (id \in ExecutedIds(1) \/ ctl # "started")
    /\ \A p \in Participants : (pc[p] = "api_wait") ~> (token[p] \/ ctl # "started")

C8_Witness ==
    /\ ctl = "started"
    /\ calls = MaxCalls
    /\ nextId[1] > MaxCalls
    /\ ExecutedIds(1) = 1..nextId[1]
    /\ \A p \in Participants : pc[p] = "idle"
    /\ \E p \in Participants : token[p]

\* C9: the run of an unsubscribe command leaves the pump running and the
\* subscriptions and handlers of every other tag as they were; for a tag that
\* is not subscribed (never was, or unsubscribed before) it changes no
\* subscription at all
C9_UnlistenIdempotent ==
    [][\A c \in Ctxs :
         (Exec(c) /\ cur[c].op = "unsubscribe") =>
            /\ running' = running
            /\ ppc'[c] = "token"
            /\ \A t \in Tags \ {cur[c].tag} :
                  /\ (t \in subs'[c]) = (t \in subs[c])
                  /\ channels'[c][t] = channels[c][t]
            /\ (cur[c].tag \notin subs[c]) => (subs' = subs /\ channels' = channels)
      ]_vars

\* unsubscribe was run twice in a row for one tag while another is subscribed
C9_Witness ==
    /\ ppc[1] = "token"
    /\ cur[1].op = "unsubscribe"
    /\ \E i \in DOMAIN execLog[1] :
          /\ i + 1 \in DOMAIN execLog[1]
          /\ execLog[1][i].op = "unsubscribe"
          /\ execLog[1][i + 1] = cur[1]
          /\ execLog[1][i].tag = cur[1].tag
    /\ \E t \in Tags \ {cur[1].tag} : t \in subs[1]
    /\ running[1]

\* the commands on the queue of context c
QueuedIds(c) == {queue[c][i].id : i \in DOMAIN queue[c]}

\* C20: the pump runs the commands in the order of the queue; it goes back
\* to the loop test only from a drain that found the queue empty, so a command
\* that was queued during one poll is never queued during the next; while
\* stop() has not been called every queued command is run, messages or not
C20_PollThenDrain ==
    /\ [](RanInOrder(1))
    /\ [](ppc[1] = "poll" => QueuedIds(1) \cap polled[1] = {})
    /\ [][(ppc'[1] = "loop" /\ ppc[1] # "loop") =>
             (ppc[1] = "set" \/ (ppc[1] = "drain" /\ queue[1] = <<>>))]_vars
    /\ [][(ppc'[1] = "poll" /\ ppc[1] # "poll") => ppc[1] = "loop"]_vars
    /\ \A id \in CmdIds : (id \in QueuedIds(1)) ~> (id \in ExecutedIds(1) \/ ctl # "started")

\* no message is on the socket, commands were run, and the command on the
\* queue came after the last poll
C20_Witness ==
    /\ ppc[1] = "poll"
    /\ inbox[1] = <<>>
    /\ envPubs = 0
    /\ Len(execLog[1]) >= 1
    /\ queue[1] # <<>>
    /\ polled[1] = {}
    /\ ctl = "started"

\* C10 as stated: once stop() was called the pump leaves its loop, closes the
\* subscription connection and ends, so that join() returns
C10_ShutdownTerminates ==
    (ctl = "stopped") ~> (ppc[1] = "done" /\ closed[1])

(* -------------------- claims about the context scope -------------------- *)
\* the pump is about to poll, is inside a poll, or is about to run a command
PumpUsesSub(c) == ppc[c] \in {"poll", "trigger", "trig_data", "trig_set", "exec"}

\* C11: the pump never polls or runs a command on a subscription connection
\* that was closed, and __exit__ releases the connections only after the pump
\* thread has ended
C11_TeardownOrdering ==
    /\ \A c \in Ctxs : PumpUsesSub(c) => SubOpen(c)
    /\ ctl = "released" => Exited(1)

C11_Witness ==
    /\ ctl = "released"
    /\ poolGiven
    /\ closed[1]
    /\ ppc[1] = "done"
    /\ \E p \in Participants : pc[p] = "done"

\* C12 as stated: once __exit__ has run, the pump thread has ended and the
\* command connection and the subscription connection are closed, whether
\* the context made its pool or was given one
C12_NoResourceSurvives ==
    ctl = "released" => (Exited(1) /\ ~CmdOpen(1) /\ ~SubOpen(1))

\* C13 as stated: a sync call one of whose broker operations (the subscribe
\* run for its listen, its incr, its publish) raised a connectivity failure
\* ends by raising that failure
C13_FailuresPropagate ==
    \A p \in Participants : brokerErr[p] ~> (pc[p] = "error")

(* ------------------------ claims about execute_job ---------------------- *)
\* C14: the payload of a job with a __barrier__ descriptor runs only after
\* sync returned, with the returned message and the wait time stored in the
\* descriptor; a job whose sync raised TimeoutError is marked failed, its
\* payload is never run, and execute_job returns False
C14_JobGating ==
    \A p \in Participants :
        job[p].barrier =>
            /\ job[p].payload =>
                  /\ result[p] # None
                  /\ job[p].release_message = result[p]
                  /\ job[p].wait_time
                  /\ job[p].status = "finished"
            /\ (pc[p] \in {"payload", "job_done"} /\ result[p] = None) =>
                  /\ timeout # None /\ elapsed[p] >= timeout
                  /\ job[p].status = "failed"
                  /\ ~job[p].payload
                  /\ job[p].returned = "False"
            /\ pc[p] \in {"job", "sync", "token_wait", "incr", "publish", "wait", "return"}
                  => ~job[p].payload

C14_Witness ==
    \E p, q \in Participants :
        /\ job[p].barrier /\ job[p].status = "failed" /\ job[p].returned = "False"
        /\ job[q].barrier /\ job[q].payload /\ job[q].release_message = MessageOf(q)

\* the pump is inside get_message, in the callback of a message
Delivering(c) == ppc[c] \in {"trigger", "trig_data", "trig_set"}

\* the step operates on the subscription connection of context c
SubConnStep(c) ==
    \/ subs'[c] # subs[c]
    \/ channels'[c] # channels[c]
    \/ pendingUnsub'[c] # pendingUnsub[c]
    \/ closed'[c] # closed[c]
    \/ Len(inbox'[c]) < Len(inbox[c])

\* C19: while the pump thread is alive only its steps operate on the
\* subscription connection and take commands off the queue (any thread may
\* put one on), and no command is run while a message is being delivered
C19_ExclusiveOwnership ==
    [][\A c \in Ctxs :
         /\ (SubConnStep(c) /\ ~Exited(c)) => ppc'[c] # ppc[c]
         /\ Len(queue'[c]) < Len(queue[c]) => (ppc[c] = "drain" /\ ppc'[c] = "exec")
         /\ Delivering(c) =>
               (execLog'[c] = execLog[c] /\ subs'[c] = subs[c] /\ channels'[c] = channels[c]
                /\ closed'[c] = closed[c])
      ]_vars

C19_Witness ==
    /\ ppc[1] = "trig_data"
    /\ queue[1] # <<>>
    /\ Len(execLog[1]) >= NumParticipants
    /\ ctl = "started"

\* the commands context c has seen: queued, held by the pump, or run
CommandsOf(c) ==
    {queue[c][i] : i \in DOMAIN queue[c]} \cup {execLog[c][i] : i \in DOMAIN execLog[c]}
        \cup (IF cur[c].op \in {"subscribe", "unsubscribe"} THEN {cur[c]} ELSE {})

\* C22: an unsubscribe command carries no token; the unlisten of trigger only
\* puts it on the queue and trigger goes on; the pump thread always has a
\* step to take, and a trigger that was entered returns
C22_PumpNeverWaitsOnItself ==
    /\ [](\A c \in Ctxs : \A cmd \in CommandsOf(c) : cmd.op = "unsubscribe" => cmd.token = None)
    /\ [][\A c \in Ctxs :
            (ppc[c] = "trigger" /\ ppc'[c] # "trigger") =>
                /\ ppc'[c] = "trig_data"
                /\ Len(queue'[c]) = Len(queue[c]) + 1
                /\ execLog'[c] = execLog[c]]_vars
    /\ [](\A c \in UsedCtxs : ENABLED Pump(c))
    /\ \A c \in Ctxs : Delivering(c) ~> (ppc[c] = "drain")

C22_Witness ==
    \E c \in Ctxs :
        /\ ppc[c] = "drain"
        /\ \E i \in DOMAIN queue[c] : queue[c][i].op = "unsubscribe"
        /\ \E p \in Participants : CtxOf(p) = c /\ relEvent[p]

(* ------------------------ claims about kpw.py --------------------------- *)
RECURSIVE Pow2(_)
Pow2(n) == IF n = 0 THEN 1 ELSE 2 * Pow2(n - 1)

\* the attempts of the probe that failed so far
FailedGets == Cardinality({k \in DOMAIN probe.log : probe.log[k] # "200"})

\* C23: probe_readiness makes at most retries GETs; it returns True at the
\* first GET answered 200 and makes no GET after it; it returns False when
\* retries GETs have failed; after the failed attempt number i (0-based) it
\* sleeps backoff * 2^i, but not after the last attempt
C23_ProbeBackoff ==
    /\ [](probe.pos # "none" =>
            /\ Len(probe.log) <= probe.retries
            /\ \A k \in DOMAIN probe.log : probe.log[k] = "200" => k = Len(probe.log)
            /\ probe.result = "True" <=> (\E k \in DOMAIN probe.log : probe.log[k] = "200")
            /\ probe.result = "False" <=>
                   (probe.pos = "done" /\ FailedGets = probe.retries /\ Len(probe.log) = probe.retries)
            /\ probe.pos = "done" => probe.result \in {"True", "False"}
            /\ \A k \in DOMAIN probe.sleeps : probe.sleeps[k] = probe.backoff0 * Pow2(k - 1)
            /\ Len(probe.sleeps) =
                   IF probe.pos = "failed" THEN FailedGets - 1
                   ELSE IF FailedGets = probe.retries /\ probe.retries > 0
                        THEN probe.retries - 1 ELSE FailedGets)
    /\ [][probe.pos = "done" => probe' = probe]_vars

\* a 200 came at the last attempt, after the sleeps backoff, 2 * backoff, ...
C23_Witness ==
    /\ probe.pos = "done"
    /\ probe.result = "True"
    /\ probe.retries = MaxRetries
    /\ Len(probe.log) = MaxRetries
    /\ Len(probe.sleeps) = MaxRetries - 1
    /\ probe.sleeps[MaxRetries - 1] = MaxBackoff * Pow2(MaxRetries - 2)

====
